---- MODULE Spec2Model ----
(***************************************************************************)
(* Build worker (Catofes/buildworker): the build environment of            *)
(* buildenv.go and the request handlers of cmd/buildworker/main.go.        *)
(*                                                                         *)
(* Every request is served by one worker.  A worker opens a build          *)
(* environment (Open: fillMasterGopath under the write lock, then the copy *)
(* loop of provision under the read lock), then either builds (Build) or   *)
(* deploys (Deploy: backupMasterGopath, UpdateMasterGopath,                *)
(* RunPluginChecks, restoreMasterGopath), and finally closes the           *)
(* environment (Close).  The master GOPATH is the only state the workers   *)
(* share.  Every external command (go get, git, go vet, go test, go build) *)
(* and every file-system call whose error the code inspects may fail.      *)
(***************************************************************************)
EXTENDS Naturals, FiniteSets, Sequences, TLC

(* Number of concurrent requests (one worker per request). *)
NumWorkers == 2

Workers == 1 .. NumWorkers

(* The host package and one plugin package that depends on it. *)
CaddyPackage == "caddy"

PluginPackage == "plugin"

Modules == {CaddyPackage, PluginPackage}

(* What the master GOPATH holds of a module: nothing, the revision it had  *)
(* before any update, or the upstream tip.                                  *)
Revs == {"absent", "old", "new"}

Content == [Modules -> Revs]

NoContent == [m \in Modules |-> "absent"]

(* The modules `go get` resolves for a package, in the order it fetches    *)
(* them: the package, then its dependencies.  A plugin imports the host.   *)
GetOrder(pkg) == IF pkg = CaddyPackage THEN <<CaddyPackage>> ELSE <<PluginPackage, CaddyPackage>>

Range(seq) == {seq[i] : i \in 1 .. Len(seq)}

(* The versions a request names for a plugin, and those it names for the   *)
(* host: the empty string is a request that names none.                    *)
PluginVersions == {"v2"}

CaddyVersions == {"", "v1"}

NoVersions == [m \in Modules |-> "none"]

Prefix(seq, k) == {seq[i] : i \in 1 .. k}

VARIABLES
  master,      \* content of the master GOPATH
  rw,          \* the reader/writer lock of the master GOPATH
  pc,          \* position of each worker in its request
  req,         \* kind of request: "build" or "deploy"
  pkgs,        \* be.pkgs: the packages of the worker's build environment
  version,     \* be.pkgs: the version recorded for each of these packages
  tmp,         \* the temporary GOPATH of the worker's build environment
  backup,      \* the backup directory of the worker's deploy
  aside,       \* the renamed-aside master GOPATH of the worker's restore
  out,         \* what the worker's calls returned
  hist,        \* per-worker history of the run, read by the properties only
  cache,       \* history of the writes to the master GOPATH, properties only
  call         \* a call of a function that works on its arguments alone:
               \* its arguments, its position and its result

(* The state of the requests and of the master GOPATH. *)
worker == <<master, rw, pc, req, pkgs, version, tmp, backup, aside, out, hist, cache>>

vars == <<worker, call>>

(* No call under way. *)
NoCall == [fn |-> "none"]

NoDir == [exists |-> FALSE, content |-> NoContent]

(* The temporary GOPATH: whether it is on disk, the revision of the cache *)
(* each package was copied from and the version it is checked out at;     *)
(* `made` remembers that newTemporaryGopath has made one for the request. *)
NoTmp == [exists |-> FALSE, made |-> FALSE, path |-> "none",
          content |-> NoContent, checkout |-> NoVersions]

(* The directory newTemporaryGopath has made at `path`. *)
NewTmp(path) == [exists |-> TRUE, made |-> TRUE, path |-> path,
                 content |-> NoContent, checkout |-> NoVersions]

(* os.RemoveAll of the temporary GOPATH. *)
RemovedTmp == [exists |-> FALSE, made |-> TRUE, path |-> "none",
               content |-> NoContent, checkout |-> NoVersions]

Dir(c) == [exists |-> TRUE, content |-> c]

NoOut == [openErr |-> FALSE, failstep |-> "none", revert |-> FALSE,
          err |-> FALSE, restoreErr |-> FALSE, deferred |-> FALSE,
          returned |-> FALSE,
          reported |-> {}]           \* the failures the error of Deploy reports

NoHist == [pre |-> NoContent, upd |-> NoContent, updated |-> FALSE,
           backupMade |-> FALSE, backupDeleted |-> 0, deleteAt |-> "none",
           restoreCalls |-> 0,
           trace |-> <<>>,                          \* phases begun and ended, in order
           steps |-> [m \in Modules |-> <<>>],     \* provisioning steps run per package
           failpkg |-> "none",                      \* package whose provisioning step failed
           ran |-> <<>>,                            \* checks run by Deploy
           restore |-> <<>>,                        \* steps restoreMasterGopath has run
           getU |-> <<>>]                           \* packages `go get -u` was run on

(* ---------------- the lock of the master GOPATH ---------------- *)

CanLock == rw.writers = {} /\ rw.readers = {}

CanRLock == rw.writers = {}

lock(w) == [rw EXCEPT !.writers = @ \cup {w}]

unlock(w) == [rw EXCEPT !.writers = @ \ {w}]

rlock(w) == [rw EXCEPT !.readers = @ \cup {w}]

runlock(w) == [rw EXCEPT !.readers = @ \ {w}]

(* UpdateMasterGopath deferring runlock after its lock. *)
DeferredRelease_updateRunlock(step) ==
  IF step \in {"fill", "restore"} THEN "unlock" ELSE "runlock"

(* RunPluginChecks deferring unlock after its rlock. *)
DeferredRelease_checksUnlock(step) ==
  IF step \in {"fill", "update", "restore", "checks"} THEN "unlock" ELSE "runlock"

(* The release each locked step defers right after its acquisition:       *)
(* unlock after the lock of fillMasterGopath, UpdateMasterGopath and      *)
(* restoreMasterGopath, runlock after the rlock of provision,             *)
(* backupMasterGopath and RunPluginChecks.                                *)
DeferredRelease(step) ==
  IF step \in {"fill", "update", "restore"} THEN "unlock" ELSE "runlock"

(* The lock after the deferred release of `step` has run for w. *)
Release(w, step) == IF DeferredRelease(step) = "unlock" THEN unlock(w) ELSE runlock(w)

(* ---------------- history bookkeeping ---------------- *)

(* A write by w that took master from `before` to `after`, meant to reach  *)
(* `goal`: remember whether a write stopped part-way, and the deploys whose *)
(* cache another worker has changed since they began.                       *)
Wrote(w, before, after, goal) ==
  [partial |-> cache.partial \/ (after # before /\ after # goal),
   disturbed |-> IF after = before THEN cache.disturbed
                 ELSE cache.disturbed \cup (Workers \ {w})]

InitWorkers ==
  /\ master \in {c \in Content : c[CaddyPackage] = "old" /\ c[PluginPackage] \in {"absent", "old"}}
  /\ rw = [writers |-> {}, readers |-> {}]
  /\ pc = [w \in Workers |-> "idle"]
  /\ req = [w \in Workers |-> "none"]
  /\ pkgs = [w \in Workers |-> {}]
  /\ version = [w \in Workers |-> NoVersions]
  /\ tmp = [w \in Workers |-> NoTmp]
  /\ backup = [w \in Workers |-> NoDir]
  /\ aside = [w \in Workers |-> NoDir]
  /\ out = [w \in Workers |-> NoOut]
  /\ hist = [w \in Workers |-> NoHist]
  /\ cache = [partial |-> FALSE, disturbed |-> {}]

Init == InitWorkers /\ call = NoCall

(* ---------------- Open: the handlers' first call ---------------- *)

(* The names ioutil.TempDir can give a temporary GOPATH. *)
TmpPaths == {"gopath.1", "gopath.2"}

(* A name for the temporary GOPATH taken without looking at the disk. *)
FreePaths_any == TmpPaths

(* The names ioutil.TempDir can return: it makes the directory with       *)
(* os.Mkdir and tries another name when one exists already.               *)
FreePaths == {p \in TmpPaths : \A v \in Workers : ~(tmp[v].exists /\ tmp[v].path = p)}

(* os.RemoveAll(path): the directory is gone for every environment that   *)
(* holds this path.                                                        *)
RemoveAll(path) ==
  [v \in Workers |-> IF tmp[v].exists /\ tmp[v].path = path THEN RemovedTmp ELSE tmp[v]]

(* The version Open records for the host: "master" when none is named. *)
HostVersion(caddyVersion) == IF caddyVersion = "" THEN "master" ELSE caddyVersion

(* Open up to the call of provision: the request chooses its kind, its     *)
(* plugins and their versions (the deploy handlers refuse a request that   *)
(* names no host version); Open makes the temporary GOPATH (ioutil.TempDir *)
(* may fail: "none") and records the packages, the host included, with     *)
(* their versions.                                                         *)
Open(w) ==
  /\ pc[w] = "idle"
  /\ \E r \in {"build", "deploy"}, plugins \in SUBSET {PluginPackage},
        caddyVersion \in CaddyVersions, pluginVersion \in PluginVersions,
        path \in {"none"} \cup FreePaths :
       /\ r = "deploy" => caddyVersion # ""
       /\ req' = [req EXCEPT ![w] = r]
       /\ IF path # "none"
            THEN /\ tmp' = [tmp EXCEPT ![w] = NewTmp(path)]
                 /\ pkgs' = [pkgs EXCEPT ![w] = plugins \cup {CaddyPackage}]
                 /\ version' = [version EXCEPT ![w] =
                      [m \in Modules |-> IF m = CaddyPackage THEN HostVersion(caddyVersion)
                                         ELSE IF m \in plugins THEN pluginVersion
                                         ELSE "none"]]
                 /\ pc' = [pc EXCEPT ![w] = "fill_lock"]
                 /\ out' = out
            ELSE /\ tmp' = tmp
                 /\ UNCHANGED <<pkgs, version>>
                 /\ pc' = [pc EXCEPT ![w] = "open_err"]
                 /\ out' = [out EXCEPT ![w].openErr = TRUE, ![w].failstep = "tempdir"]
  /\ hist' = [hist EXCEPT ![w].pre = master]
  /\ cache' = [cache EXCEPT !.disturbed = @ \ {w}]
  /\ UNCHANGED <<master, rw, backup, aside, call>>

(* Open returning the error of provision without removing the temporary GOPATH. *)
OpenFailed_keep(w, step) ==
  /\ tmp' = tmp
  /\ pc' = [pc EXCEPT ![w] = "open_err"]
  /\ out' = [out EXCEPT ![w].openErr = TRUE, ![w].failstep = step]

(* Open after provision has failed at `step`: the temporary GOPATH is removed. *)
OpenFailed(w, step) ==
  /\ tmp' = RemoveAll(tmp[w].path)
  /\ pc' = [pc EXCEPT ![w] = "open_err"]
  /\ out' = [out EXCEPT ![w].openErr = TRUE, ![w].failstep = step]

fillMasterGopathLock(w) ==
  /\ pc[w] = "fill_lock"
  /\ CanLock
  /\ rw' = lock(w)
  /\ pc' = [pc EXCEPT ![w] = "fill"]
  /\ UNCHANGED <<master, req, pkgs, version, call, tmp, backup, aside, out, hist, cache>>

(* `go get -u` instead of `go get`: every module is fetched again. *)
Missing_all(w) == {m \in UNION {Range(GetOrder(p)) : p \in pkgs[w]} : TRUE}

(* The modules the `go get` calls of fillMasterGopath add: those of the    *)
(* environment's packages and their dependencies the cache does not hold.  *)
Missing(w) == {m \in UNION {Range(GetOrder(p)) : p \in pkgs[w]} : master[m] = "absent"}

Fill(c, S) == [m \in Modules |-> IF m \in S THEN "new" ELSE c[m]]

(* fillMasterGopath: `go get` for one package after the other (D, the     *)
(* packages it has run for), until one fails (f) or all are done.         *)
fillMasterGopath(w) ==
  /\ pc[w] = "fill"
  /\ \E f \in {"none"} \cup pkgs[w], D \in SUBSET pkgs[w], S \in SUBSET Missing(w) :
       /\ f = "none" => D = pkgs[w] /\ S = Missing(w)
       /\ f # "none" => f \in D
       /\ \A p \in D \ {f} : Range(GetOrder(p)) \cap Missing(w) \subseteq S
       /\ master' = Fill(master, S)
       /\ cache' = Wrote(w, master, master', Fill(master, Missing(w)))
       /\ rw' = Release(w, "fill")
       /\ hist' = [hist EXCEPT
                     ![w].steps = [m \in Modules |-> IF m \in D THEN <<"fill">> ELSE <<>>],
                     ![w].failpkg = f]
       /\ IF f = "none"
            THEN /\ pc' = [pc EXCEPT ![w] = "prov_rlock"]
                 /\ UNCHANGED <<tmp, out>>
            ELSE OpenFailed(w, "fill")
  /\ UNCHANGED <<req, pkgs, version, call, backup, aside>>

provisionRLock(w) ==
  /\ pc[w] = "prov_rlock"
  /\ CanRLock
  /\ rw' = rlock(w)
  /\ pc' = [pc EXCEPT ![w] = "prov"]
  /\ UNCHANGED <<master, req, pkgs, version, call, tmp, backup, aside, out, hist, cache>>

(* A turn of the copy loop with git checkout before git fetch. *)
ProvisionSteps_checkoutFirst == <<"copy", "checkout", "fetch", "goget">>

(* The steps of one turn of the copy loop of provision, in its order:     *)
(* deepCopy, git fetch, git checkout, go get.                              *)
ProvisionSteps == <<"copy", "fetch", "checkout", "goget">>

(* The steps of a turn that have run when `fail` has failed (all of them  *)
(* when none has).                                                         *)
StepsRun(fail) ==
  IF fail = "none" THEN ProvisionSteps
  ELSE SubSeq(ProvisionSteps, 1, CHOOSE i \in 1 .. Len(ProvisionSteps) : ProvisionSteps[i] = fail)

(* git checkout of the host's version in every package. *)
CheckedOut_host(w, m) == version[w][CaddyPackage]

(* What git checkout leaves checked out in the copy of m: the version the *)
(* environment records for m.                                              *)
CheckedOut(w, m) == version[w][m]

(* One turn of the copy loop of provision: deepCopy, git fetch, git      *)
(* checkout and go get for one package; any of them may fail, and        *)
(* deepCopy fails when the cache does not hold the package.              *)
provisionPkg(w) ==
  /\ pc[w] = "prov"
  /\ \E m \in pkgs[w], fail \in {"none"} \cup Range(ProvisionSteps) :
       /\ tmp[w].content[m] = "absent"
       /\ master[m] = "absent" => fail = "copy"
       /\ hist' = [hist EXCEPT
                     ![w].steps[m] = @ \o StepsRun(fail),
                     ![w].failpkg = IF fail = "none" THEN @ ELSE m]
       /\ IF fail = "none"
            THEN /\ tmp' = [tmp EXCEPT ![w].content[m] = master[m],
                                       ![w].checkout[m] = CheckedOut(w, m)]
                 /\ UNCHANGED <<pc, rw, out>>
            ELSE /\ rw' = Release(w, "provision")
                 /\ OpenFailed(w, fail)
  /\ UNCHANGED <<master, req, pkgs, version, call, backup, aside, cache>>

(* The loop is over: provision and Open return without error. *)
provisionDone(w) ==
  /\ pc[w] = "prov"
  /\ \A m \in pkgs[w] : tmp[w].content[m] # "absent"
  /\ rw' = Release(w, "provision")
  /\ pc' = [pc EXCEPT ![w] = "opened"]
  /\ hist' = [hist EXCEPT ![w].trace = @ \o <<"provision">>]
  /\ UNCHANGED <<master, req, pkgs, version, call, tmp, backup, aside, out, cache>>

(* ---------------- /build ---------------- *)

(* Build works in the temporary GOPATH and the output folder only. *)
Build(w) ==
  /\ pc[w] = "opened"
  /\ req[w] = "build"
  /\ \E ok \in BOOLEAN : out' = [out EXCEPT ![w].err = ~ok]
  /\ pc' = [pc EXCEPT ![w] = "closing"]
  /\ UNCHANGED <<master, rw, req, pkgs, version, call, tmp, backup, aside, hist, cache>>

(* The handler returns: the request and everything it held in memory are *)
(* gone; what it left on disk stays.                                      *)
HandlerReturns(w) ==
  /\ pc' = [pc EXCEPT ![w] = "done"]
  /\ req' = [req EXCEPT ![w] = "none"]
  /\ pkgs' = [pkgs EXCEPT ![w] = {}]
  /\ version' = [version EXCEPT ![w] = NoVersions]
  /\ out' = [out EXCEPT ![w] = NoOut]
  /\ hist' = [hist EXCEPT ![w] = NoHist]
  /\ cache' = [cache EXCEPT !.disturbed = @ \ {w}]
  /\ call' = call

(* The handlers, when Open returned an error: they report it and return. *)
OpenError(w) ==
  /\ pc[w] = "open_err"
  /\ HandlerReturns(w)
  /\ UNCHANGED <<master, rw, tmp, backup, aside>>

(* The handlers' deferred be.Close(), and their return. *)
Close(w) ==
  /\ pc[w] = "closing"
  /\ tmp' = RemoveAll(tmp[w].path)
  /\ HandlerReturns(w)
  /\ UNCHANGED <<master, rw, backup, aside>>

(* ---------------- /deploy-caddy and /deploy-plugin: Deploy ---------------- *)

(* Deploy returning nil when the restore it ran has succeeded. *)
DeployError_nilAfterRestore(failstep, restoreErr) ==
  IF restoreErr THEN {failstep, "restore"}
  ELSE IF failstep \in {"none", "hosttest"} THEN {} ELSE {failstep}

(* Deploy returning the error of the restore alone. *)
DeployError_restoreOnly(failstep, restoreErr) ==
  IF restoreErr THEN {"restore"}
  ELSE IF failstep # "none" THEN {failstep} ELSE {}

(* The failures the error returned by Deploy reports: the step that has   *)
(* failed, and the restore as well when restoreMasterGopath has failed.    *)
DeployError(failstep, restoreErr) ==
  (IF failstep # "none" THEN {failstep} ELSE {}) \cup (IF restoreErr THEN {"restore"} ELSE {})

(* The phase of Deploy that begins when a worker moves to position `to`. *)
Begins(to) ==
  IF to = "backup_rlock" THEN <<"backup">>
  ELSE IF to = "update_lock" THEN <<"update">>
  ELSE IF to = "checks_rlock" THEN <<"checks">>
  ELSE IF to = "restore_lock" THEN <<"restore">>
  ELSE <<>>

(* The switch without its test for the host package. *)
DeployCheck_anyPackage(packages) ==
  IF Cardinality(packages) = 0 THEN "nothing to deploy"
  ELSE IF Cardinality(packages) \in {1, 2} THEN "none"
  ELSE "too many packages to deploy"

(* The switch on len(be.pkgs) that opens Deploy: the error it returns, or *)
(* "none" when Deploy goes on.                                            *)
DeployCheck(packages) ==
  IF Cardinality(packages) = 0 THEN "nothing to deploy"
  ELSE IF Cardinality(packages) \in {1, 2}
    THEN (IF CaddyPackage \notin packages THEN "no caddy package" ELSE "none")
  ELSE "too many packages to deploy"

(* Deploy up to the call of backupMasterGopath: only the host, or the     *)
(* host and one plugin, can be deployed.                                   *)
DeployStart(w) ==
  /\ pc[w] = "opened"
  /\ req[w] = "deploy"
  /\ cache' = [cache EXCEPT !.disturbed = @ \ {w}]
  /\ IF DeployCheck(pkgs[w]) = "none"
       THEN /\ pc' = [pc EXCEPT ![w] = "backup_rlock"]
            /\ hist' = [hist EXCEPT ![w].pre = master, ![w].trace = @ \o Begins("backup_rlock")]
            /\ out' = out
       ELSE /\ hist' = [hist EXCEPT ![w].pre = master]
            /\ pc' = [pc EXCEPT ![w] = "closing"]
            /\ out' = [out EXCEPT ![w].err = TRUE, ![w].failstep = "pkgs", ![w].returned = TRUE,
                                   ![w].reported = DeployError("pkgs", FALSE)]
  /\ UNCHANGED <<master, rw, req, pkgs, version, call, tmp, backup, aside>>

backupMasterGopathRLock(w) ==
  /\ pc[w] = "backup_rlock"
  /\ CanRLock
  /\ rw' = rlock(w)
  /\ pc' = [pc EXCEPT ![w] = "backup"]
  /\ UNCHANGED <<master, req, pkgs, version, call, tmp, backup, aside, out, hist, cache>>

(* Deploy registering the deferred removal before it looks at the error. *)
DeferRemoval_early(backupErr) == TRUE

(* Deploy registers the deferred removal of the backup directory only     *)
(* after backupMasterGopath has returned without error.                    *)
DeferRemoval(backupErr) == ~backupErr

(* Deploy going on to the update whatever backupMasterGopath returned. *)
AfterBackup_ignoreErr(ok) == "update_lock"

(* Where Deploy goes on when backupMasterGopath has returned: to the      *)
(* update, or, with the error, to its return.                              *)
AfterBackup(ok) == IF ok THEN "update_lock" ELSE "deploy_ret"

(* backupMasterGopath and Deploy's handling of its result.  ioutil.TempDir *)
(* may fail (no directory), deepCopy may fail (the partial directory is    *)
(* removed here), or the whole cache is copied.                            *)
backupMasterGopath(w) ==
  /\ pc[w] = "backup"
  /\ rw' = Release(w, "backup")
  /\ \E res \in {"tempdir", "copy", "ok"} :
       /\ backup' = [backup EXCEPT ![w] = IF res = "ok" THEN Dir(master) ELSE NoDir]
       /\ hist' = [hist EXCEPT
                     ![w].backupMade = (res # "tempdir"),
                     ![w].backupDeleted = IF res = "copy" THEN 1 ELSE 0,
                     ![w].deleteAt = IF res = "copy" THEN "backup" ELSE "none",
                     ![w].trace = @ \o <<"/backup">>
                                    \o Begins(AfterBackup(res = "ok"))]
       /\ out' = [out EXCEPT
                    ![w].err = (res # "ok"),
                    ![w].failstep = IF res = "ok" THEN "none" ELSE "backup",
                    ![w].deferred = DeferRemoval(res # "ok")]
       /\ pc' = [pc EXCEPT ![w] = AfterBackup(res = "ok")]
  /\ UNCHANGED <<master, req, pkgs, version, call, tmp, aside, cache>>

(* The host is picked whatever the environment holds. *)
packageToDeploy_host(w) == CaddyPackage

(* The package `go get -u` is run on. *)
packageToDeploy(w) ==
  IF Cardinality(pkgs[w]) = 1 THEN CaddyPackage
  ELSE CHOOSE key \in pkgs[w] : key # CaddyPackage

(* UpdateMasterGopath taking the read lock where it takes the write lock. *)
UpdateMasterGopathLock_rlock(w) ==
  /\ pc[w] = "update_lock"
  /\ CanRLock
  /\ rw' = rlock(w)
  /\ pc' = [pc EXCEPT ![w] = "update"]
  /\ UNCHANGED <<master, req, pkgs, version, call, tmp, backup, aside, out, hist, cache>>

UpdateMasterGopathLock(w) ==
  /\ pc[w] = "update_lock"
  /\ CanLock
  /\ rw' = lock(w)
  /\ pc' = [pc EXCEPT ![w] = "update"]
  /\ UNCHANGED <<master, req, pkgs, version, call, tmp, backup, aside, out, hist, cache>>

(* Deploy restoring the master GOPATH when the update has failed. *)
AfterUpdate_restore(ok) == IF ok THEN "checks_rlock" ELSE "restore_lock"

(* Where Deploy goes on when UpdateMasterGopath has returned: to the      *)
(* checks, or, with the error, to its return.                              *)
AfterUpdate(ok) == IF ok THEN "checks_rlock" ELSE "deploy_ret"

(* `go get -u` fetches the tip of the package and of its dependencies one *)
(* after the other, and may fail after any number of them.                *)
UpdateMasterGopath(w) ==
  /\ pc[w] = "update"
  /\ rw' = Release(w, "update")
  /\ LET order == GetOrder(packageToDeploy(w)) IN
     \E k \in 0 .. Len(order), ok \in BOOLEAN :
       /\ ok => k = Len(order)
       /\ master' = Fill(master, Prefix(order, k))
       /\ cache' = Wrote(w, master, master', Fill(master, Range(order)))
       /\ pc' = [pc EXCEPT ![w] = AfterUpdate(ok)]
       /\ hist' = [hist EXCEPT
                     ![w].upd = IF ok THEN master' ELSE @,
                     ![w].updated = ok,
                     ![w].getU = @ \o <<packageToDeploy(w)>>,
                     ![w].trace = @ \o <<"/update">> \o Begins(AfterUpdate(ok))]
       /\ out' = IF ok THEN out
                 ELSE [out EXCEPT ![w].err = TRUE, ![w].failstep = "update"]
  /\ UNCHANGED <<req, pkgs, version, call, tmp, backup, aside>>

RunPluginChecksRLock(w) ==
  /\ pc[w] = "checks_rlock"
  /\ CanRLock
  /\ rw' = rlock(w)
  /\ pc' = [pc EXCEPT ![w] = "checks"]
  /\ UNCHANGED <<master, req, pkgs, version, call, tmp, backup, aside, out, hist, cache>>

(* RunPluginChecks running the tests of the plugin before go vet. *)
CheckSteps_testFirst == <<"test", "vet", "plug", "hosttest", "build">>

(* The steps RunPluginChecks runs for a plugin, in its order. *)
CheckSteps == <<"vet", "test", "plug", "hosttest", "build">>

(* RunPluginChecks asking for a revert after a failed compile check too. *)
Revert_build(step) == step \in {"hosttest", "build"}

(* The first return value of RunPluginChecks for the step that failed. *)
Revert(step) == step = "hosttest"

(* Deploy restoring after every failed check, whatever revert says. *)
ShouldRestore_anyErr(err, revert) == err

(* Deploy restores the master GOPATH when the checks failed and ask for it. *)
ShouldRestore(err, revert) == err /\ revert

(* The checks RunPluginChecks has run for the plugins when `step` has     *)
(* failed (all of them when none has): none without a plugin.             *)
ChecksRun(plugins, step) ==
  IF plugins = {} THEN <<>>
  ELSE IF step = "none" THEN CheckSteps
  ELSE SubSeq(CheckSteps, 1, CHOOSE i \in 1 .. Len(CheckSteps) : CheckSteps[i] = step)

(* RunPluginChecks and Deploy's decision on its result.  The host package *)
(* is skipped; each step of a plugin may fail, which ends the checks.     *)
RunPluginChecks(w) ==
  /\ pc[w] = "checks"
  /\ rw' = Release(w, "checks")
  /\ \E step \in {"none"} \cup Range(CheckSteps) :
       /\ pkgs[w] \ {CaddyPackage} = {} => step = "none"
       /\ out' = [out EXCEPT
                    ![w].err = (step # "none"),
                    ![w].failstep = step,
                    ![w].revert = Revert(step)]
       /\ LET to == IF ShouldRestore(step # "none", Revert(step))
                      THEN "restore_lock" ELSE "deploy_ret"
          IN /\ pc' = [pc EXCEPT ![w] = to]
             /\ hist' = [hist EXCEPT
                           ![w].restoreCalls = IF to = "restore_lock" THEN @ + 1 ELSE @,
                           ![w].ran = ChecksRun(pkgs[w] \ {CaddyPackage}, step),
                           ![w].trace = @ \o <<"/checks">> \o Begins(to)]
  /\ UNCHANGED <<master, req, pkgs, version, call, tmp, backup, aside, cache>>

(* restoreMasterGopath taking the read lock where it takes the write lock. *)
restoreMasterGopathLock_rlock(w) ==
  /\ pc[w] = "restore_lock"
  /\ CanRLock
  /\ rw' = rlock(w)
  /\ pc' = [pc EXCEPT ![w] = "restore_rename"]
  /\ UNCHANGED <<master, req, pkgs, version, call, tmp, backup, aside, out, hist, cache>>

restoreMasterGopathLock(w) ==
  /\ pc[w] = "restore_lock"
  /\ CanLock
  /\ rw' = lock(w)
  /\ pc' = [pc EXCEPT ![w] = "restore_rename"]
  /\ UNCHANGED <<master, req, pkgs, version, call, tmp, backup, aside, out, hist, cache>>

(* restoreMasterGopath returns an error: the lock is released and Deploy  *)
(* returns both errors.                                                    *)
RestoreFailed(w, step) ==
  /\ rw' = Release(w, "restore")
  /\ out' = [out EXCEPT ![w].restoreErr = TRUE]
  /\ pc' = [pc EXCEPT ![w] = "deploy_ret"]
  /\ hist' = [hist EXCEPT ![w].trace = @ \o <<"/restore">>,
                           ![w].restore = @ \o <<step, "error">>]

(* restoreMasterGopath removing the renamed-aside cache right after the   *)
(* rename.                                                                *)
AfterRestoreStep_removeFirst(step) ==
  IF step = "rename" THEN "restore_remove" ELSE "deploy_ret"

(* Where restoreMasterGopath goes after a step that succeeded. *)
AfterRestoreStep(step) ==
  IF step = "rename" THEN "restore_copy"
  ELSE IF step = "copy" THEN "restore_remove"
  ELSE "deploy_ret"

(* os.Rename moves the master GOPATH aside. *)
restoreRename(w) ==
  /\ pc[w] = "restore_rename"
  /\ \E ok \in BOOLEAN :
       IF ok
         THEN /\ aside' = [aside EXCEPT ![w] = Dir(master)]
              /\ master' = NoContent
              /\ cache' = Wrote(w, master, master', master')
              /\ pc' = [pc EXCEPT ![w] = AfterRestoreStep("rename")]
              /\ hist' = [hist EXCEPT ![w].restore = @ \o <<"rename">>]
              /\ UNCHANGED <<rw, out>>
         ELSE /\ RestoreFailed(w, "rename")
              /\ UNCHANGED <<aside, master, cache>>
  /\ UNCHANGED <<req, pkgs, version, call, tmp, backup>>

(* What deepCopy has written when it copied the modules S of src. *)
Copied(src, S) == [m \in Modules |-> IF m \in S THEN src[m] ELSE "absent"]

(* deepCopy of the backup into the place of the master GOPATH; it may    *)
(* fail after any part of the tree.                                       *)
restoreCopy(w) ==
  /\ pc[w] = "restore_copy"
  /\ \E S \in SUBSET Modules, ok \in BOOLEAN :
       /\ ok => S = Modules
       /\ master' = Copied(backup[w].content, S)
       /\ cache' = [partial |-> cache.partial \/ master' # backup[w].content,
                    disturbed |-> cache.disturbed \cup (Workers \ {w})]
       /\ IF ok
            THEN /\ pc' = [pc EXCEPT ![w] = AfterRestoreStep("copy")]
                 /\ hist' = [hist EXCEPT ![w].restore = @ \o <<"copy">>]
                 /\ UNCHANGED <<rw, out>>
            ELSE RestoreFailed(w, "copy")
  /\ UNCHANGED <<req, pkgs, version, call, tmp, backup, aside>>

(* os.RemoveAll of the renamed-aside master GOPATH, and the return. *)
restoreRemove(w) ==
  /\ pc[w] = "restore_remove"
  /\ \E ok \in BOOLEAN :
       IF ok
         THEN /\ aside' = [aside EXCEPT ![w] = NoDir]
              /\ rw' = Release(w, "restore")
              /\ pc' = [pc EXCEPT ![w] = AfterRestoreStep("remove")]
              /\ out' = out
              /\ hist' = [hist EXCEPT ![w].trace = @ \o <<"/restore">>,
                                       ![w].restore = @ \o <<"remove">>]
         ELSE /\ aside' = aside
              /\ RestoreFailed(w, "remove")
  /\ UNCHANGED <<master, req, pkgs, version, call, tmp, backup, cache>>

(* Deploy returns: the deferred os.RemoveAll(backupGopath) runs. *)
DeployReturn(w) ==
  /\ pc[w] = "deploy_ret"
  /\ pc' = [pc EXCEPT ![w] = "closing"]
  /\ out' = [out EXCEPT ![w].returned = TRUE,
                         ![w].reported = DeployError(out[w].failstep, out[w].restoreErr)]
  /\ IF out[w].deferred
       THEN /\ backup' = [backup EXCEPT ![w] = NoDir]
            /\ hist' = [hist EXCEPT ![w].backupDeleted = @ + 1, ![w].deleteAt = "return"]
       ELSE UNCHANGED <<backup, hist>>
  /\ UNCHANGED <<master, rw, req, pkgs, version, call, tmp, aside, cache>>

Step(w) ==
  \/ Open(w)
  \/ OpenError(w)
  \/ fillMasterGopathLock(w)
  \/ fillMasterGopath(w)
  \/ provisionRLock(w)
  \/ provisionPkg(w)
  \/ provisionDone(w)
  \/ Build(w)
  \/ DeployStart(w)
  \/ backupMasterGopathRLock(w)
  \/ backupMasterGopath(w)
  \/ UpdateMasterGopathLock(w)
  \/ UpdateMasterGopath(w)
  \/ RunPluginChecksRLock(w)
  \/ RunPluginChecks(w)
  \/ restoreMasterGopathLock(w)
  \/ restoreRename(w)
  \/ restoreCopy(w)
  \/ restoreRemove(w)
  \/ DeployReturn(w)
  \/ Close(w)

Next == \E w \in Workers : Step(w)

Spec == Init /\ [][Next]_vars

(* A worker's acquisitions of the lock of the master GOPATH. *)
Acquire(w) ==
  \/ fillMasterGopathLock(w) \/ provisionRLock(w) \/ backupMasterGopathRLock(w)
  \/ UpdateMasterGopathLock(w) \/ RunPluginChecksRLock(w) \/ restoreMasterGopathLock(w)

(* Every other step of a request that has begun: the handler's own code   *)
(* and the external commands it waits for.                                *)
Commands(w) == pc[w] # "idle" /\ Step(w) /\ ~Acquire(w)

(* Requests under the assumptions that every external command terminates  *)
(* and that the lock serves its waiting readers and writers.              *)
SpecLive ==
  /\ Init /\ [][Next]_vars
  /\ \A w \in Workers : WF_vars(Commands(w)) /\ SF_vars(Acquire(w))

(* ---------------- plugInThePlugin: the import added to the entry file ---------------- *)

(* Number of calls of plugInThePlugin on one entry file. *)
MaxCalls == 3

(* Import paths: one the entry file has of its own, and two plugins. *)
HostImport == "caddyhttp"

PlugPackages == {"plugin", "dns"}

ImportPaths == {HostImport} \cup PlugPackages

(* Sequences of distinct import paths: the import declarations of a file. *)
ImportLists ==
  {<<>>} \cup {<<a>> : a \in ImportPaths}
         \cup {l \in ImportPaths \X ImportPaths : l[1] # l[2]}

(* A file that is not a Go source file any more: what a failed write may  *)
(* leave, or a file parser.ParseFile rejects.                             *)
Broken == [parses |-> FALSE, imports |-> <<>>]

(* The entry files plugInThePlugin is given: Go source files with their   *)
(* import declarations (a plugin is imported for its side effects, with   *)
(* the name "_"), or a file that does not parse.                          *)
EntryFiles == {[parses |-> TRUE, imports |-> l] : l \in ImportLists} \cup {Broken}

(* How often a path is imported. *)
Count(path, imports) == Cardinality({i \in 1 .. Len(imports) : imports[i] = path})

(* astutil.AddNamedImport adding the import whether or not it is there. *)
AddNamedImport_always(imports, pkg) == Append(imports, pkg)

(* astutil.AddNamedImport(fset, f, "_", pkg): adds the import if absent. *)
AddNamedImport(imports, pkg) ==
  IF pkg \in Range(imports) THEN imports ELSE Append(imports, pkg)

(* ioutil.WriteFile called although printing has failed. *)
WriteFileReached_printError(fail) == fail \in {"none", "print", "write"}

(* plugInThePlugin reaches ioutil.WriteFile when parsing and printing     *)
(* have succeeded.                                                        *)
WriteFileReached(fail) == fail \in {"none", "write"}

(* plugInThePlugin(file, pkg); `fail` is the call that fails, if any.  A  *)
(* failed ioutil.WriteFile leaves the file as it was or cut short.        *)
plugInThePlugin(pkg) ==
  /\ call.fn = "plugInThePlugin"
  /\ Len(call.log) < MaxCalls
  /\ \E fail \in {"none", "parse", "print", "write"}, cut \in BOOLEAN :
       /\ ~call.file.parses => fail = "parse"
       /\ (cut => fail = "write")
       /\ LET after == IF ~WriteFileReached(fail) THEN call.file
                       ELSE IF fail = "write" THEN (IF cut THEN Broken ELSE call.file)
                       ELSE [parses |-> TRUE, imports |-> AddNamedImport(call.file.imports, pkg)]
          IN call' = [call EXCEPT !.file = after,
                                  !.log = Append(@, [pkg |-> pkg, fail |-> fail,
                                                     before |-> call.file, after |-> after])]
  /\ UNCHANGED worker

InitPlug ==
  /\ InitWorkers
  /\ call \in {[fn |-> "plugInThePlugin", file |-> f, log |-> <<>>] : f \in EntryFiles}

NextPlug == \E pkg \in PlugPackages : plugInThePlugin(pkg)

SpecPlug == InitPlug /\ [][NextPlug]_vars

(* ---------------- SupportedPlatforms: the platforms to build for ---------------- *)

(* Longest list `go tool dist list -json` prints, and longest skip list. *)
MaxRaw == 2

MaxRules == 2

(* Sequences over S of length at most n. *)
SeqUpTo(S, n) == UNION {[1 .. k -> S] : k \in 0 .. n}

(* Platform: GOOS, GOARCH, GOARM and CgoSupported.  The tool prints one   *)
(* entry per GOOS/GOARCH pair; cgo is a property of the pair.             *)
Platform(os, arch, arm) == [OS |-> os, Arch |-> arch, ARM |-> arm, Cgo |-> (os = "linux")]

RawPlatforms ==
  {Platform(os, "amd64", "") : os \in {"linux", "darwin"}}
    \cup {Platform(os, "arm", arm) : os \in {"linux", "darwin"}, arm \in {"", "7"}}

(* The lists json.Unmarshal yields: entries are distinct. *)
RawLists ==
  {l \in SeqUpTo(RawPlatforms, MaxRaw) :
     \A a \in 1 .. Len(l), b \in 1 .. Len(l) : a # b => l[a] # l[b]}

(* Skip rules: an empty field matches every value; Cgo is not compared. *)
SkipRules ==
  {[OS |-> os, Arch |-> arch, ARM |-> arm, Cgo |-> FALSE] :
     os \in {"", "darwin"}, arch \in {"", "arm"}, arm \in {"", "7"}}

SkipLists == SeqUpTo(SkipRules, MaxRules)

(* The expansion listing the ARM versions from the newest. *)
ExpandAt_newestFirst(platforms, i) ==
  IF platforms[i].Arch = "arm" /\ platforms[i].ARM = ""
    THEN SubSeq(platforms, 1, i - 1)
           \o <<[platforms[i] EXCEPT !.ARM = "7"],
                Platform(platforms[i].OS, platforms[i].Arch, "6"),
                Platform(platforms[i].OS, platforms[i].Arch, "5")>>
           \o SubSeq(platforms, i + 1, Len(platforms))
    ELSE platforms

(* One iteration of the expansion loop: the entry at i gets ARM "5" and   *)
(* entries with ARM "6" and "7" are inserted after it.                    *)
ExpandAt(platforms, i) ==
  IF platforms[i].Arch = "arm" /\ platforms[i].ARM = ""
    THEN SubSeq(platforms, 1, i - 1)
           \o <<[platforms[i] EXCEPT !.ARM = "5"],
                [OS |-> platforms[i].OS, Arch |-> platforms[i].Arch, ARM |-> "6", Cgo |-> platforms[i].Cgo],
                [OS |-> platforms[i].OS, Arch |-> platforms[i].Arch, ARM |-> "7", Cgo |-> platforms[i].Cgo]>>
           \o SubSeq(platforms, i + 1, Len(platforms))
    ELSE platforms

(* osMatch && archMatch && armMatch of the filter loop. *)
Matches(unsup, p) ==
  /\ unsup.OS = "" \/ unsup.OS = p.OS
  /\ unsup.Arch = "" \/ unsup.Arch = p.Arch
  /\ unsup.ARM = "" \/ unsup.ARM = p.ARM

(* The filter loop going on to the next index after a removal. *)
AfterRemoval_next(i) == i + 1

(* The index the filter loop looks at after it removed the entry at i:    *)
(* `i--` and the `i++` of the loop.                                       *)
AfterRemoval(i) == (i - 1) + 1

(* append(platforms[:i], platforms[i+1:]...), i counted from 1. *)
RemoveAt(platforms, i) == SubSeq(platforms, 1, i - 1) \o SubSeq(platforms, i + 1, Len(platforms))

(* `go tool dist list -json` and json.Unmarshal: either may fail. *)
distList ==
  /\ call.fn = "SupportedPlatforms" /\ call.stage = "list"
  /\ \E ok \in BOOLEAN :
       call' = IF ok THEN [call EXCEPT !.stage = "expand", !.platforms = call.raw,
                                       !.i = Len(call.raw)]
               ELSE [call EXCEPT !.stage = "done", !.err = TRUE]
  /\ UNCHANGED worker

(* One iteration of `for i := len(platforms) - 1; i >= 0; i--` (indices   *)
(* count from 1 here), or its end.                                        *)
expandStep ==
  /\ call.fn = "SupportedPlatforms" /\ call.stage = "expand"
  /\ call' = IF call.i = 0
               THEN [call EXCEPT !.stage = "filter", !.i = 1, !.expanded = call.platforms]
               ELSE [call EXCEPT !.platforms = ExpandAt(@, call.i), !.i = @ - 1]
  /\ UNCHANGED worker

(* One iteration of `for i := 0; i < len(platforms); i++`, or its end and *)
(* the return.                                                            *)
filterStep ==
  /\ call.fn = "SupportedPlatforms" /\ call.stage = "filter"
  /\ call' = IF call.i > Len(call.platforms)
               THEN [call EXCEPT !.stage = "done"]
               ELSE IF \E k \in 1 .. Len(call.skip) : Matches(call.skip[k], call.platforms[call.i])
                 THEN [call EXCEPT !.platforms = RemoveAt(@, call.i), !.i = AfterRemoval(@)]
                 ELSE [call EXCEPT !.i = @ + 1]
  /\ UNCHANGED worker

InitPlatforms ==
  /\ InitWorkers
  /\ call \in {[fn |-> "SupportedPlatforms", stage |-> "list", raw |-> raw, skip |-> skip,
                 platforms |-> <<>>, expanded |-> <<>>, i |-> 0, err |-> FALSE] :
                  raw \in RawLists, skip \in SkipLists}

NextPlatforms == distList \/ expandStep \/ filterStep

SpecPlatforms == InitPlatforms /\ [][NextPlatforms]_vars

(* ---------------- Build: the name of the artifact ---------------- *)

(* Longest version string of a build request, in characters. *)
MaxVersionLen == 10

(* Strings that are cut are sequences of characters. *)
Hex == <<"a", "1", "b", "2", "c", "3", "d", "4", "e", "5">>

(* A commit hash of n characters, and a tag of n characters ("v...").     *)
Hash(n) == [k \in 1 .. n |-> Hex[((k - 1) % 10) + 1]]

Tag(n) == IF n = 0 THEN <<>> ELSE <<"v">> \o Hash(n - 1)

RequestVersions == {Hash(n) : n \in 0 .. MaxVersionLen} \cup {Tag(n) : n \in 0 .. MaxVersionLen}

MasterBranch == <<"m", "a", "s", "t", "e", "r">>

(* be.pkgs as Open makes it: the packages of the plugins, and the host    *)
(* package at caddyVersion, or at "master" when that is empty.            *)
OpenPkgs(caddyVersion, plugins) ==
  [packages |-> plugins \cup {CaddyPackage},
   caddyVer |-> IF caddyVersion = <<>> THEN MasterBranch ELSE caddyVersion]

(* strings.HasPrefix(s, "v") *)
HasPrefixV(s) == Len(s) >= 1 /\ s[1] = "v"

(* The version cut to 8 characters whatever it starts with. *)
ShortVersion_always(caddyVer) ==
  IF Len(caddyVer) > 8 THEN SubSeq(caddyVer, 1, 8) ELSE caddyVer

(* caddyVer as it goes into the name: cut to 8 characters unless a tag. *)
ShortVersion(caddyVer) ==
  IF ~HasPrefixV(caddyVer) /\ Len(caddyVer) > 8 THEN SubSeq(caddyVer, 1, 8) ELSE caddyVer

(* s + t for a string t that may be empty. *)
Plus(s, t) == IF t = "" THEN s ELSE Append(s, t)

(* outputName of Build. *)
OutputName(be, plat) ==
  LET base == Plus(Plus(Plus(Plus(<<"caddy_">> \o ShortVersion(be.caddyVer), "_"), plat.OS), "_"), plat.Arch)
      arm == IF plat.Arch = "arm" THEN Plus(base, plat.ARM) ELSE base
  IN IF Cardinality(be.packages) > 1 THEN Plus(arm, "_custom") ELSE arm

BuildPlatforms ==
  {[OS |-> os, Arch |-> arch, ARM |-> arm, Cgo |-> cgo] :
     os \in {"", "linux", "windows"}, arch \in {"", "amd64", "arm"},
     arm \in {"", "7"}, cgo \in BOOLEAN}

(* Build(plat, outputFolder): plugging in, compiling or compressing may   *)
(* fail; the artifact is outputFolder/outputName with its extension.      *)
BuildOutput ==
  /\ call.fn = "Build" /\ call.stage = "opened"
  /\ \E fail \in {"none", "plug", "build", "compress"} :
       /\ (fail = "plug" => call.be.packages # {CaddyPackage})
       /\ call' = IF call.plat.OS = "" \/ call.plat.Arch = ""
                    THEN [call EXCEPT !.stage = "done", !.err = "missing"]
                    ELSE IF fail # "none"
                      THEN [call EXCEPT !.stage = "done", !.err = fail]
                      ELSE [call EXCEPT !.stage = "done",
                                        !.artifact = [folder |-> call.folder,
                                                      name |-> OutputName(call.be, call.plat),
                                                      ext |-> IF call.plat.OS \in {"windows", "darwin"}
                                                                THEN ".zip" ELSE ".tar.gz"]]
  /\ UNCHANGED worker

NoArtifact == [folder |-> "none", name |-> <<>>, ext |-> "none"]

InitBuild ==
  /\ InitWorkers
  /\ call \in {[fn |-> "Build", stage |-> "opened", be |-> OpenPkgs(v, plugins),
                 plat |-> plat, folder |-> folder, err |-> "none", artifact |-> NoArtifact] :
                  v \in RequestVersions, plugins \in SUBSET {CaddyPackage, "plugin", "dns"},
                  plat \in BuildPlatforms, folder \in {"caddy_build_1", "caddy_build_2"}}

NextBuild == BuildOutput

SpecBuild == InitBuild /\ [][NextBuild]_vars

(* ---------------- the lock registry behind lock, rlock, unlock, runlock ---------------- *)

(* Cache identities: the paths of master GOPATHs. *)
Ids == {"gopath.a", "gopath.b"}

NoLock == [id |-> "none", by |-> 0]

(* The reader/writer lock that process p creates for id. *)
NewLock(id, p) == [id |-> id, by |-> p]

NoProc == [pc |-> "idle", id |-> "none", mode |-> "none", phase |-> "none",
           seen |-> NoLock, obj |-> NoLock, holds |-> NoLock]

(* The registry looked up without taking its mutex. *)
MutexFree_unguarded(reg) == TRUE

(* The mutex of the registry can be taken. *)
MutexFree(reg) == reg.mu = 0

(* Processes that hold the lock `obj`, and in which mode. *)
Holders(reg, obj) == {q \in Workers : reg.proc[q].holds = obj}

(* Standard reader/writer semantics: a writer excludes everyone, readers  *)
(* exclude writers.                                                       *)
CanAcquire(reg, p) ==
  \A q \in Holders(reg, reg.proc[p].obj) \ {p} :
    reg.proc[p].mode = "read" /\ reg.proc[q].mode = "read"

(* A caller asks for the lock of id in some mode. *)
Want(p) ==
  /\ call.fn = "registry" /\ call.proc[p].pc = "idle"
  /\ \E id \in Ids, mode \in {"read", "write"} :
       call' = [call EXCEPT !.proc[p] = [NoProc EXCEPT !.pc = "want", !.id = id,
                                                        !.mode = mode, !.phase = "acquire"]]
  /\ UNCHANGED worker

(* The caller takes the mutex of the registry. *)
lockRegistry(p) ==
  /\ call.fn = "registry" /\ call.proc[p].pc = "want"
  /\ MutexFree(call)
  /\ call' = [call EXCEPT !.mu = p, !.proc[p].pc = "mu"]
  /\ UNCHANGED worker

(* It reads the entry of the id. *)
lookup(p) ==
  /\ call.fn = "registry" /\ call.proc[p].pc = "mu"
  /\ call' = [call EXCEPT !.proc[p].seen = call.table[call.proc[p].id], !.proc[p].pc = "looked"]
  /\ UNCHANGED worker

(* It creates the lock of an id it has not seen, and enters it. *)
createIfUnseen(p) ==
  /\ call.fn = "registry" /\ call.proc[p].pc = "looked"
  /\ LET id == call.proc[p].id
     IN IF call.proc[p].seen = NoLock
          THEN call' = [call EXCEPT !.table[id] = NewLock(id, p),
                                    !.created[id] = @ \cup {NewLock(id, p)},
                                    !.proc[p].obj = NewLock(id, p),
                                    !.proc[p].pc = "found"]
          ELSE call' = [call EXCEPT !.proc[p].obj = call.proc[p].seen, !.proc[p].pc = "found"]
  /\ UNCHANGED worker

(* It gives the mutex back before it uses the lock. *)
unlockRegistry(p) ==
  /\ call.fn = "registry" /\ call.proc[p].pc = "found"
  /\ call' = [call EXCEPT !.mu = IF @ = p THEN 0 ELSE @,
                          !.proc[p].pc = IF call.proc[p].phase = "acquire" THEN "got" ELSE "release"]
  /\ UNCHANGED worker

(* acquireRead / acquireWrite on the lock of the id. *)
acquire(p) ==
  /\ call.fn = "registry" /\ call.proc[p].pc = "got"
  /\ CanAcquire(call, p)
  /\ call' = [call EXCEPT !.proc[p].holds = call.proc[p].obj, !.proc[p].pc = "held"]
  /\ UNCHANGED worker

(* The holder starts releaseRead / releaseWrite: it looks the lock up     *)
(* again.                                                                 *)
beginRelease(p) ==
  /\ call.fn = "registry" /\ call.proc[p].pc = "held"
  /\ call' = [call EXCEPT !.proc[p].phase = "release", !.proc[p].pc = "want"]
  /\ UNCHANGED worker

(* releaseRead / releaseWrite on the lock of the id. *)
release(p) ==
  /\ call.fn = "registry" /\ call.proc[p].pc = "release"
  /\ call' = [call EXCEPT !.proc[p] = NoProc,
                          !.released = @ \cup {[held |-> call.proc[p].holds, on |-> call.proc[p].obj]}]
  /\ UNCHANGED worker

InitRegistry ==
  /\ InitWorkers
  /\ call = [fn |-> "registry", mu |-> 0,
             table |-> [id \in Ids |-> NoLock],
             created |-> [id \in Ids |-> {}],
             released |-> {},
             proc |-> [p \in Workers |-> NoProc]]

NextRegistry ==
  \E p \in Workers :
    \/ Want(p) \/ lockRegistry(p) \/ lookup(p) \/ createIfUnseen(p)
    \/ unlockRegistry(p) \/ acquire(p) \/ beginRelease(p) \/ release(p)

SpecRegistry == InitRegistry /\ [][NextRegistry]_vars

(* ---------------- Deploy: the environments it accepts ---------------- *)

(* Packages an environment can hold. *)
DeployPackages == {CaddyPackage, PluginPackage, "dns", "git", "cors"}

(* What Deploy does after its switch, in its order; `fail` is the phase   *)
(* that fails, and the restore runs when the checks ask for it.           *)
DeployPhases(fail, revert) ==
  IF fail = "backup" THEN <<"backup">>
  ELSE IF fail = "update" THEN <<"backup", "update", "remove backup">>
  ELSE IF fail = "checks" /\ ~revert THEN <<"backup", "update", "checks", "remove backup">>
  ELSE IF fail \in {"checks", "restore"}
    THEN <<"backup", "update", "checks", "restore", "remove backup">>
  ELSE <<"backup", "update", "checks", "remove backup">>

(* Deploy() on an environment with the packages call.be: the switch, and  *)
(* for an accepted environment the phases with their locks and commands.  *)
DeployCall ==
  /\ call.fn = "Deploy" /\ call.stage = "called"
  /\ IF DeployCheck(call.be) # "none"
       THEN call' = [call EXCEPT !.stage = "returned", !.err = DeployCheck(call.be)]
       ELSE \E fail \in {"none", "backup", "update", "checks", "restore"}, revert \in BOOLEAN :
              /\ (fail = "restore" => revert) /\ (revert => fail \in {"checks", "restore"})
              /\ call' = [call EXCEPT
                            !.stage = "returned",
                            !.err = fail,
                            !.did = DeployPhases(fail, revert),
                            !.cache = IF fail = "backup" \/ (fail = "checks" /\ revert)
                                        THEN @ ELSE "written"]
  /\ UNCHANGED worker

InitDeploy ==
  /\ InitWorkers
  /\ call \in {[fn |-> "Deploy", stage |-> "called", be |-> packages, err |-> "none",
                 did |-> <<>>, cache |-> "untouched"] : packages \in SUBSET DeployPackages}

SpecDeploy == InitDeploy /\ [][DeployCall]_vars

(* ---------------- builder.go: the workspace GOPATHs ---------------- *)

(* Instants of the clock, in half hundredths of a second. *)
MaxClock == 3

(* Clock instants in one hundredth of a second, the last digit the        *)
(* layout MonthDayHourMinSec keeps.                                        *)
Centisecond == 2

(* The folder name makeNewGopath derives from time.Now(): the instant     *)
(* formatted down to the hundredth of a second.                           *)
GopathName(now) == now \div Centisecond

(* A request enters Build, DeployPlugin or CheckPlugin: Build takes the   *)
(* shared lock; newBuildEnv reads the clock, and makeNewGopath makes the  *)
(* folder of that name, which os.MkdirAll accepts when it exists already. *)
newBuildEnv(w) ==
  /\ call.fn = "builder" /\ call.r[w].pos = "idle"
  /\ \E kind \in {"build", "deploy"}, now \in call.now .. MaxClock, ok \in BOOLEAN :
       call' = [call EXCEPT
                  !.now = now,
                  !.readers = IF kind = "build" /\ ok THEN @ \cup {w} ELSE @,
                  !.gopaths = IF ok THEN @ \cup {GopathName(now)} ELSE @,
                  !.r[w] = IF ok THEN [kind |-> kind, pos |-> "work", Gopath |-> GopathName(now)]
                                 ELSE [kind |-> kind, pos |-> "done", Gopath |-> MaxClock + 1]]
  /\ UNCHANGED worker

(* setup, the plug-in and the builds or checks, run in be.Gopath; a       *)
(* deploy then goes on to deploy(), unless a step has failed.             *)
builderRuns(w) ==
  /\ call.fn = "builder" /\ call.r[w].pos = "work"
  /\ \E ok \in BOOLEAN :
       call' = [call EXCEPT !.r[w].pos = IF call.r[w].kind = "deploy" /\ ok
                                            THEN "lock" ELSE "cleanup"]
  /\ UNCHANGED worker

(* deploy(): the update of the master GOPATH under the exclusive lock,    *)
(* taken when no build holds the shared one.                              *)
deploy(w) ==
  /\ call.fn = "builder" /\ call.r[w].pos = "lock"
  /\ call.readers = {}
  /\ call' = [call EXCEPT !.r[w].pos = "cleanup"]
  /\ UNCHANGED worker

(* The deferred be.cleanup(): os.RemoveAll(be.Gopath); Build then gives   *)
(* the shared lock back.                                                  *)
cleanup(w) ==
  /\ call.fn = "builder" /\ call.r[w].pos = "cleanup"
  /\ call' = [call EXCEPT
                !.gopaths = @ \ {call.r[w].Gopath},
                !.readers = @ \ {w},
                !.r[w].pos = "done"]
  /\ UNCHANGED worker

InitGopath ==
  /\ InitWorkers
  /\ call = [fn |-> "builder", now |-> 0, gopaths |-> {}, readers |-> {},
             r |-> [w \in Workers |-> [kind |-> "none", pos |-> "idle", Gopath |-> MaxClock + 1]]]

SpecGopath ==
  InitGopath /\ [][\E w \in Workers : newBuildEnv(w) \/ builderRuns(w) \/ deploy(w) \/ cleanup(w)]_vars

(* ---------------- deepCopy ---------------- *)

(* File and folder names, each the sequence of its parts: "x", ".x",      *)
(* "testdata", "x_test.go", "_test.go", "testdata_test.go".               *)
EntryNames ==
  {<<"x">>, <<".", "x">>, <<"testdata">>, <<"x", "_test.go">>, <<"_test.go">>,
   <<"testdata", "_test.go">>}

(* What the walk function of deepCopy answers for one entry before it     *)
(* copies anything: "SkipDir", "skip" (return nil) or "copy".             *)
Skips(name, isDir, skipHidden, skipTestFiles) ==
  IF skipHidden /\ Head(name) = "." THEN (IF isDir THEN "SkipDir" ELSE "skip")
  ELSE IF skipTestFiles /\ isDir /\ name = <<"testdata">> THEN "SkipDir"
  ELSE IF skipTestFiles /\ ~isDir /\ name[Len(name)] = "_test.go" THEN "skip"
  ELSE "copy"

(* The entries of a source tree: a folder d that holds a file g, and a    *)
(* file f, each under its path relative to the root.                      *)
Entries(src) ==
  {[path |-> <<src.d.name>>, isDir |-> TRUE, perm |-> src.d.perm, content |-> "none"],
   [path |-> <<src.d.name, src.g.name>>, isDir |-> FALSE, perm |-> src.g.perm,
    content |-> src.g.content],
   [path |-> <<src.f.name>>, isDir |-> FALSE, perm |-> src.f.perm, content |-> src.f.content]}

(* deepCopy(src, dest, skipHidden, skipTestFiles) on an empty dest:       *)
(* filepath.Walk calls the function on the root first, under the last     *)
(* element of src as its name, then on each entry; SkipDir leaves out all *)
(* that is beneath.  A folder is made with os.MkdirAll and a file is      *)
(* written with its bytes, both with info.Mode()&os.ModePerm.             *)
deepCopy(src, skipHidden, skipTestFiles) ==
  IF Skips(src.root, TRUE, skipHidden, skipTestFiles) # "copy" THEN {}
  ELSE {e \in Entries(src) :
          /\ Skips(e.path[1], Len(e.path) = 2 \/ e.isDir, skipHidden, skipTestFiles) = "copy"
          /\ Len(e.path) = 2 => Skips(e.path[2], e.isDir, skipHidden, skipTestFiles) = "copy"}

deepCopyCall ==
  /\ call.fn = "deepCopy" /\ call.stage = "called"
  /\ call' = [call EXCEPT !.stage = "returned",
                          !.dest = deepCopy(call.src, call.skipHidden, call.skipTestFiles)]
  /\ UNCHANGED worker

InitCopy ==
  /\ InitWorkers
  /\ \E root \in {<<"x">>, <<".">>, <<"testdata">>}, d \in EntryNames, g \in EntryNames,
        f \in EntryNames, dp \in {"rwxr-xr-x", "rwx------"}, gp \in {"rw-r--r--", "r--r--r--"},
        fp \in {"rw-r--r--", "rwxr-xr-x"}, gc \in {"A", "B"}, fc \in {"A", "B"},
        skipHidden \in BOOLEAN, skipTestFiles \in BOOLEAN :
       /\ d # f
       /\ call = [fn |-> "deepCopy", stage |-> "called",
                  src |-> [root |-> root, d |-> [name |-> d, perm |-> dp],
                           g |-> [name |-> g, perm |-> gp, content |-> gc],
                           f |-> [name |-> f, perm |-> fp, content |-> fc]],
                  skipHidden |-> skipHidden, skipTestFiles |-> skipTestFiles, dest |-> {}]

SpecCopy == InitCopy /\ [][deepCopyCall]_vars

(* ======================= properties ======================= *)

(* w holds the write lock: it is inside fillMasterGopath,                 *)
(* UpdateMasterGopath or restoreMasterGopath.                              *)
WriteSection(w) == pc[w] \in {"fill", "update", "restore_rename", "restore_copy", "restore_remove"}

(* w holds the read lock: it is inside the copy loop of provision,        *)
(* backupMasterGopath or RunPluginChecks.                                  *)
ReadSection(w) == pc[w] \in {"prov", "backup", "checks"}

(* w waits for the lock. *)
Waiting(w) == pc[w] \in {"fill_lock", "prov_rlock", "backup_rlock", "update_lock",
                          "checks_rlock", "restore_lock"}

(* Deploy is about to return to the handler: nothing but its deferred     *)
(* removal of the backup is left to run.                                   *)
Returning(w) == pc[w] = "deploy_ret"

(* Deploy is about to return and no write of the cache is under way: the  *)
(* master GOPATH is what a reader taking the read lock now would see.      *)
Resolved(w) == Returning(w) /\ \A v \in Workers : ~WriteSection(v)

(* The checks of a plugin other than the host test with the plugin injected. *)
OwnChecks == {"vet", "test", "plug", "build"}

(* C1: no worker is in a write-locked section (fillMasterGopath,           *)
(* UpdateMasterGopath, restoreMasterGopath) while another worker is in a   *)
(* write-locked or a read-locked section (copy loop of provision,          *)
(* backupMasterGopath, RunPluginChecks).                                   *)
C1_WriterExcludesAll ==
  \A w \in Workers : WriteSection(w) =>
    \A v \in Workers \ {w} : ~WriteSection(v) /\ ~ReadSection(v)

(* C1, witness: a worker writes the cache while another one waits for the lock. *)
C1_Witness ==
  \E w \in Workers, v \in Workers : w # v /\ WriteSection(w) /\ Waiting(v)

(* C1, second half: read-lock holders do overlap; TLC reaches this state. *)
C1_ReadersOverlap ==
  \E w \in Workers, v \in Workers : w # v /\ ReadSection(w) /\ ReadSection(v)

(* C2: when the host test with the plugin injected has failed, the master  *)
(* GOPATH is, when Deploy returns, what it was when Deploy was called.     *)
C2_HostFailureRestoresCache ==
  \A w \in Workers : Resolved(w) /\ out[w].failstep = "hosttest" => master = hist[w].pre

(* The modules the update of w's deploy writes. *)
Target(w) == Range(GetOrder(packageToDeploy(w)))

(* C3: when Deploy returns after a commit or a rollback attempt, the       *)
(* modules its update writes are in the master GOPATH either all as before *)
(* the deploy or all as updated.                                           *)
C3_NoMixture ==
  \A w \in Workers : Resolved(w) /\ hist[w].updated =>
    \/ \A m \in Target(w) : master[m] = hist[w].pre[m]
    \/ \A m \in Target(w) : master[m] = hist[w].upd[m]

(* C4: when Deploy returns nil, the modules its update wrote are in the    *)
(* master GOPATH as the update wrote them, and, once it has returned, no   *)
(* backup directory is left.                                               *)
C4_CommitKeepsUpdate ==
  \A w \in Workers :
    /\ Resolved(w) /\ ~out[w].err =>
         \A m \in Target(w) : master[m] = hist[w].upd[m]
    /\ out[w].returned /\ ~out[w].err => ~backup[w].exists

(* C5: when the update step has failed, the master GOPATH is, when Deploy  *)
(* returns, what it was when Deploy was called.                            *)
C5_FailedUpdateLeavesCache ==
  \A w \in Workers : Resolved(w) /\ out[w].failstep = "update" => master = hist[w].pre

(* C6 as stated: when any check has failed, the master GOPATH is at its    *)
(* pre-deploy revision when the deploy has finished.                       *)
C6_AnyFailureRollsBack ==
  \A w \in Workers :
    Returning(w) /\ out[w].failstep \in Range(CheckSteps) => master = hist[w].pre

(* C6 as amended: when a check other than the host test has failed, the   *)
(* deploy has not restored the cache, and the cache holds what the update  *)
(* wrote unless another request has written it since the deploy began.     *)
C6_OwnFailureKeepsUpdate ==
  \A w \in Workers :
    Returning(w) /\ out[w].failstep \in OwnChecks =>
      /\ hist[w].restoreCalls = 0
      /\ w \notin cache.disturbed => master = hist[w].upd

(* C6, witness: a deploy returns after a failed go vet with the cache at   *)
(* the updated revision, which differs from the pre-deploy one.            *)
C6_Witness ==
  \E w \in Workers :
    /\ Returning(w) /\ out[w].failstep = "vet"
    /\ master = hist[w].upd /\ hist[w].upd # hist[w].pre

(* C7: Deploy calls restoreMasterGopath if and only if the host test with  *)
(* the plugin injected has failed; any other failed check is returned with *)
(* revert = false and without a restore.                                   *)
C7_RestoreIffHostTest ==
  \A w \in Workers :
    /\ hist[w].restoreCalls > 0 <=> out[w].failstep = "hosttest"
    /\ out[w].failstep \in OwnChecks => out[w].err /\ ~out[w].revert
    /\ pc[w] \in {"restore_lock", "restore_rename", "restore_copy", "restore_remove"}
         => out[w].failstep = "hosttest" /\ out[w].revert

(* C7, witness: the host test has failed and the restore has run. *)
C7_Witness ==
  \E w \in Workers :
    Returning(w) /\ out[w].failstep = "hosttest" /\ hist[w].restoreCalls = 1

(* w is inside a deploy transaction: between the start of its backup and  *)
(* the return of Deploy.                                                   *)
InTransaction(w) ==
  pc[w] \in {"backup", "update_lock", "update", "checks_rlock", "checks", "restore_lock",
             "restore_rename", "restore_copy", "restore_remove", "deploy_ret"}

(* C8: at most one deploy transaction is active at any time. *)
C8_OneDeployAtATime ==
  \A w \in Workers, v \in Workers : w # v => ~(InTransaction(w) /\ InTransaction(v))

(* C9: whenever provision copies out of the master GOPATH, no write of the *)
(* cache is under way and none has stopped part-way.                       *)
C9_CopySeesCompleteWrites ==
  \A w \in Workers : pc[w] = "prov" =>
    /\ \A v \in Workers : ~WriteSection(v)
    /\ ~cache.partial

(* C10: a backup directory that was created is deleted exactly once: by    *)
(* backupMasterGopath when its copy failed, and then Deploy does not       *)
(* delete it again, else when Deploy returns, after the restore if there   *)
(* is one; until then it exists.                                           *)
C10_BackupDeletedOnce ==
  \A w \in Workers :
    /\ hist[w].backupDeleted <= 1
    /\ hist[w].backupMade /\ out[w].returned => hist[w].backupDeleted = 1 /\ ~backup[w].exists
    /\ hist[w].deleteAt = "backup" => out[w].failstep = "backup"
    /\ hist[w].deleteAt = "return" => out[w].returned
    /\ hist[w].backupMade /\ hist[w].deleteAt = "none" =>
         backup[w].exists /\ InTransaction(w) /\ pc[w] # "backup"

(* C10, witness: a deploy has rolled back and returned, its backup deleted once. *)
C10_Witness ==
  \E w \in Workers :
    /\ out[w].returned /\ hist[w].backupMade /\ hist[w].restoreCalls = 1
    /\ hist[w].backupDeleted = 1 /\ ~backup[w].exists

(* The phases of w's Deploy that have begun ("backup") and ended          *)
(* ("/backup"), in the order they did: the trace of the request without   *)
(* its provisioning.                                                       *)
DeployTrace(w) == SelectSeq(hist[w].trace, LAMBDA e : e # "provision")

(* The phases of a deploy in the order backup, update, validation, restore. *)
PhaseOrder == <<"backup", "/backup", "update", "/update", "checks", "/checks", "restore", "/restore">>

IsPrefix(s, t) == Len(s) <= Len(t) /\ s = SubSeq(t, 1, Len(s))

(* C11: the phases of a Deploy begin and end in the order backup, update,  *)
(* validation, restore: each at most once, none before the one before it   *)
(* has ended, the restore only after the validation has returned a failed  *)
(* check; and a Deploy that returns nil has been through backup, update    *)
(* and validation and has not restored.                                    *)
C11_PhaseOrder ==
  \A w \in Workers :
    /\ IsPrefix(DeployTrace(w), PhaseOrder)
    /\ "restore" \in Range(DeployTrace(w)) =>
         "/checks" \in Range(DeployTrace(w)) /\ out[w].failstep \in Range(CheckSteps)
    /\ Returning(w) /\ ~out[w].err => DeployTrace(w) = SubSeq(PhaseOrder, 1, 6)
    /\ Returning(w) => Len(DeployTrace(w)) \in {2, 4, 6, 8}

(* C11, witness: a Deploy is about to return after all four phases. *)
C11_Witness ==
  \E w \in Workers : Returning(w) /\ DeployTrace(w) = PhaseOrder

(* e comes before f in the trace of w's request. *)
Before(w, e, f) ==
  \E i, j \in 1 .. Len(hist[w].trace) :
    i < j /\ hist[w].trace[i] = e /\ hist[w].trace[j] = f

(* C12: while the checks of a deploy run, the temporary GOPATH they run on *)
(* has been provisioned after the update of that deploy had ended.         *)
C12_ProvisionedAfterUpdate ==
  \A w \in Workers : pc[w] = "checks" => Before(w, "/update", "provision")

(* The checks of the host package: go vet, go test and the compile checks. *)
CaddyChecks == {"vet", "test", "build"}

(* C13: a deploy of the host alone that returns nil has run go vet, go     *)
(* test and the compile checks after its update and before it returned.    *)
C13_HostChecksRun ==
  \A w \in Workers :
    Returning(w) /\ pkgs[w] = {CaddyPackage} /\ ~out[w].err =>
      /\ CaddyChecks \subseteq Range(hist[w].ran)
      /\ Before(w, "/update", "checks")

C15_CheckedOutAtVersion ==
  \A w \in Workers : pc[w] = "opened" =>
    \A m \in pkgs[w] :
      /\ tmp[w].exists /\ tmp[w].content[m] # "absent"
      /\ tmp[w].checkout[m] = version[w][m]
      /\ version[w][m] \in PluginVersions \cup {HostVersion(v) : v \in CaddyVersions}

(* C15, witness: Open has returned an environment with the host at the     *)
(* default version and a plugin at another one.                            *)
C15_Witness ==
  \E w \in Workers :
    /\ pc[w] = "opened" /\ pkgs[w] = {CaddyPackage, PluginPackage}
    /\ tmp[w].checkout[CaddyPackage] = "master"
    /\ tmp[w].checkout[PluginPackage] \in PluginVersions

(* The five steps of provisioning a package, in the order of the claim:   *)
(* go get in the cache, copy, git fetch, git checkout, go get in the      *)
(* workspace.                                                              *)
FiveSteps == <<"fill", "copy", "fetch", "checkout", "goget">>

(* C16: the steps run for a package of an environment are the first ones  *)
(* of the five, in their order and each once; a step that fails is the    *)
(* last one run for its package, so no step runs after a failed one, and  *)
(* when Open has returned without error all five have run for every       *)
(* package and none for any other.                                         *)
C16_StepOrder ==
  \A w \in Workers : \A m \in Modules :
    /\ IsPrefix(hist[w].steps[m], FiveSteps)
    /\ m \notin pkgs[w] => hist[w].steps[m] = <<>>
    /\ pc[w] = "opened" /\ m \in pkgs[w] => hist[w].steps[m] = FiveSteps
    /\ hist[w].failpkg = m =>
         /\ pc[w] = "open_err" /\ hist[w].steps[m] # <<>>
         /\ hist[w].steps[m][Len(hist[w].steps[m])] = out[w].failstep
    /\ hist[w].failpkg # m => Len(hist[w].steps[m]) \in {0, 1, Len(FiveSteps)}

(* C16, witness: Open has returned an environment of two packages. *)
C16_Witness ==
  \E w \in Workers :
    /\ pc[w] = "opened" /\ pkgs[w] = {CaddyPackage, PluginPackage}
    /\ \A m \in pkgs[w] : hist[w].steps[m] = FiveSteps

(* C16, the failing case: git checkout of the plugin has failed after the *)
(* host has gone through its five steps; TLC reaches this state.          *)
C16_FailedCheckout ==
  \E w \in Workers :
    /\ pc[w] = "open_err" /\ out[w].failstep = "checkout"
    /\ hist[w].failpkg = PluginPackage
    /\ hist[w].steps[PluginPackage] = SubSeq(FiveSteps, 1, 4)
    /\ hist[w].steps[CaddyPackage] = FiveSteps

(* C17: while a worker is between the end of its fillMasterGopath and the *)
(* read lock of its copy loop, no other worker holds the write lock: it   *)
(* could only have taken it after that fillMasterGopath released it.      *)
C17_NoWriterBeforeCopy ==
  \A w \in Workers : pc[w] = "prov_rlock" =>
    \A v \in Workers \ {w} : ~WriteSection(v)

(* Open has returned the error of provision to the handler. *)
ProvisionFailed(w) == pc[w] = "open_err" /\ out[w].failstep # "tempdir"

(* No other worker has changed the master GOPATH since w's current call   *)
(* (Open, then Deploy) began.                                              *)
Undisturbed(w) == w \notin cache.disturbed

(* C18: when Open has failed at a step of provision, the temporary GOPATH *)
(* is removed and the master GOPATH is what it was when Open was called   *)
(* (no other request having written it meanwhile).                        *)
C18_FailedOpenLeavesCache ==
  \A w \in Workers : ProvisionFailed(w) =>
    /\ ~tmp[w].exists
    /\ Undisturbed(w) => master = hist[w].pre

(* C18, the half that holds: after a failed provision the temporary       *)
(* GOPATH is removed.                                                      *)
C18_FailedOpenRemovesTmp ==
  \A w \in Workers : ProvisionFailed(w) => tmp[w].made /\ ~tmp[w].exists

(* The step changes a package the master GOPATH holds: its revision, or   *)
(* its presence.                                                           *)
ChangesExisting == \E m \in Modules : master[m] # "absent" /\ master'[m] # master[m]

(* The step is one of worker w. *)
StepOf(w) == pc'[w] # pc[w] \/ tmp'[w] # tmp[w]

(* C19: no step of a build request changes or removes a package the       *)
(* master GOPATH holds (it may add packages the cache lacks); a step that  *)
(* does is the update or the restore of a deploy.                          *)
C19_BuildOnlyAdds ==
  [][ChangesExisting =>
       \E w \in Workers :
         /\ StepOf(w) /\ req[w] = "deploy"
         /\ pc[w] \in {"update", "restore_rename", "restore_copy"}]_vars

(* C19, witness: the fillMasterGopath of a build request has added the    *)
(* plugin the cache did not hold and left the host as it was.             *)
C19_Witness ==
  \E w \in Workers :
    /\ req[w] = "build" /\ pc[w] = "prov_rlock" /\ Undisturbed(w)
    /\ hist[w].pre[PluginPackage] = "absent" /\ master[PluginPackage] = "new"
    /\ master[CaddyPackage] = hist[w].pre[CaddyPackage]

(* C20: once the handler of a request has returned, the temporary GOPATH  *)
(* made for the request is not on disk, whether Open, Build or Deploy     *)
(* failed or not.                                                          *)
C20_TmpGoneAtReturn ==
  \A w \in Workers : pc[w] = "done" => ~tmp[w].exists

(* C20, witness: a handler has returned whose request had a temporary     *)
(* GOPATH made, while that of another request is still on disk.           *)
C20_Witness ==
  \E w \in Workers, v \in Workers :
    /\ pc[w] = "done" /\ tmp[w].made /\ ~tmp[w].exists
    /\ pc[v] = "closing" /\ tmp[v].exists

(* w's build environment is alive: Open has made its temporary GOPATH and *)
(* the handler has not returned.                                           *)
Alive(w) == pc[w] \notin {"idle", "open_err", "done"}

(* C21: two build environments alive at the same time hold different      *)
(* temporary GOPATH paths, and the directory of an alive environment is on *)
(* disk: no Close or failed Open of another request has removed it.        *)
C21_DistinctTmpPaths ==
  \A w \in Workers :
    Alive(w) =>
      /\ tmp[w].exists /\ tmp[w].path \in TmpPaths
      /\ \A v \in Workers \ {w} : Alive(v) => tmp[v].path # tmp[w].path

(* C21, witness: one environment has been closed while another is in use. *)
C21_Witness ==
  \E w \in Workers, v \in Workers :
    /\ w # v /\ pc[w] = "done" /\ tmp[w].made
    /\ pc[v] = "opened" /\ tmp[v].exists /\ tmp[v].path \in TmpPaths

(* The place of check `c` among the checks w's RunPluginChecks has run     *)
(* (none when it has not run).                                             *)
RanAt(w, c) == {i \in 1 .. Len(hist[w].ran) : hist[w].ran[i] = c}

(* C22: of the checks RunPluginChecks has run for the plugin, go vet comes *)
(* before go test and go test before the compile checks, each run once and *)
(* none without the one before it; a check that fails is the last one run  *)
(* and is the error returned; without a failure all of them have run.      *)
C22_CheckOrder ==
  \A w \in Workers :
    /\ \A c \in {"vet", "test", "build"} : Cardinality(RanAt(w, c)) <= 1
    /\ \A i \in RanAt(w, "test") : \E j \in RanAt(w, "vet") : j < i
    /\ \A i \in RanAt(w, "build") : \E j \in RanAt(w, "test") : j < i
    /\ hist[w].ran # <<>> /\ out[w].err =>
         hist[w].ran[Len(hist[w].ran)] = out[w].failstep
    /\ hist[w].ran # <<>> /\ ~out[w].err => RanAt(w, "build") # {}
    /\ out[w].failstep \in {"vet", "test", "plug", "hosttest", "build"} =>
         hist[w].ran # <<>> /\ RanAt(w, out[w].failstep) = {Len(hist[w].ran)}

(* C22, witness: go test of the plugin has failed after go vet has passed, *)
(* and nothing has run after it.                                           *)
C22_Witness ==
  \E w \in Workers :
    Returning(w) /\ out[w].failstep = "test" /\ hist[w].ran = <<"vet", "test">>

(* C23: a Deploy whose restoreMasterGopath has failed returns an error    *)
(* that reports the failed host test and the failed restore, and it has   *)
(* called restoreMasterGopath once; no Deploy calls it twice.             *)
C23_RestoreFailureReported ==
  \A w \in Workers :
    /\ hist[w].restoreCalls <= 1
    /\ out[w].restoreErr => hist[w].restoreCalls = 1 /\ out[w].err
    /\ out[w].returned /\ out[w].restoreErr => out[w].reported = {"hosttest", "restore"}
    /\ out[w].returned /\ ~out[w].restoreErr => "restore" \notin out[w].reported

(* C23, witness: Deploy has returned after its restore failed. *)
C23_Witness ==
  \E w \in Workers :
    out[w].returned /\ out[w].restoreErr /\ hist[w].restoreCalls = 1

(* The steps of restoreMasterGopath, in the order of the source. *)
RestoreSteps == <<"rename", "copy", "remove">>

(* The steps restoreMasterGopath has run, without the mark of a failure. *)
RestoreRun(w) ==
  IF hist[w].restore # <<>> /\ hist[w].restore[Len(hist[w].restore)] = "error"
    THEN SubSeq(hist[w].restore, 1, Len(hist[w].restore) - 1)
    ELSE hist[w].restore

(* C30: restoreMasterGopath renames the live cache aside, copies the      *)
(* backup into its place and deletes the renamed-aside cache, in that     *)
(* order and each step only after the one before has succeeded; the       *)
(* renamed-aside cache is deleted only once the copy has completed, and   *)
(* the backup is deleted only after restoreMasterGopath has returned.     *)
C30_RestoreOrder ==
  [][\A w \in Workers :
       /\ IsPrefix(RestoreRun(w)', RestoreSteps)
       /\ hist[w].restore # <<>> /\ hist[w].restore[Len(hist[w].restore)] = "error"
            => hist'[w].restore \in {hist[w].restore, <<>>}
       /\ aside[w].exists /\ ~aside'[w].exists
            => /\ hist[w].restore = <<"rename", "copy">>
               /\ master = backup[w].content
       /\ backup[w].exists /\ ~backup'[w].exists
            => /\ pc[w] = "deploy_ret"
               /\ hist[w].restoreCalls > 0 => "/restore" \in Range(hist[w].trace)]_vars

(* C30, witness: a restore has run its three steps and Deploy has then    *)
(* deleted the backup.                                                    *)
C30_Witness ==
  \E w \in Workers :
    /\ hist[w].restore = RestoreSteps
    /\ ~aside[w].exists
    /\ hist[w].deleteAt = "return" /\ ~backup[w].exists

(* C24: a call of plugInThePlugin that succeeds right after one that      *)
(* succeeded with the same package leaves the imports of the file as the  *)
(* first has left them, with exactly one import of the package.           *)
C24_SecondApplicationNoChange ==
  call.fn = "plugInThePlugin" =>
    \A i \in 1 .. Len(call.log) - 1 :
      /\ call.log[i].fail = "none" /\ call.log[i + 1].fail = "none"
      /\ call.log[i].pkg = call.log[i + 1].pkg
      => /\ call.log[i + 1].before = call.log[i].after
         /\ call.log[i + 1].after.imports = call.log[i].after.imports
         /\ Count(call.log[i].pkg, call.log[i + 1].after.imports) = 1

(* C24, witness: the package was not imported, and plugInThePlugin has    *)
(* succeeded twice in a row with it.                                      *)
C24_Witness ==
  /\ call.fn = "plugInThePlugin" /\ Len(call.log) >= 2
  /\ call.log[1].fail = "none" /\ call.log[2].fail = "none"
  /\ call.log[1].pkg = call.log[2].pkg
  /\ call.log[1].pkg \notin Range(call.log[1].before.imports)

(* C25: a call of plugInThePlugin that fails in parser.ParseFile or in    *)
(* printer.Fprint leaves the entry file as it was.                        *)
C25_FailedPlugKeepsFile ==
  call.fn = "plugInThePlugin" =>
    \A i \in 1 .. Len(call.log) :
      call.log[i].fail \in {"parse", "print"} => call.log[i].after = call.log[i].before

(* C25, witness: printing has failed for a package the file does not      *)
(* import, and parsing has failed in another call.                        *)
C25_Witness ==
  /\ call.fn = "plugInThePlugin"
  /\ \E i \in 1 .. Len(call.log) :
       /\ call.log[i].fail = "print"
       /\ call.log[i].pkg \notin Range(call.log[i].before.imports)
  /\ \E i \in 1 .. Len(call.log) : call.log[i].fail = "parse"

(* What the claims ask of one raw entry: an entry with Arch "arm" and no  *)
(* ARM becomes the entries with ARM "5", "6" and "7", another is kept.    *)
Revisions(p) ==
  IF p.Arch = "arm" /\ p.ARM = ""
    THEN <<[p EXCEPT !.ARM = "5"], [p EXCEPT !.ARM = "6"], [p EXCEPT !.ARM = "7"]>>
    ELSE <<p>>

RECURSIVE Expanded(_)
Expanded(raw) == IF raw = <<>> THEN <<>> ELSE Revisions(Head(raw)) \o Expanded(Tail(raw))

(* A rule matches a platform when each of its non-empty fields equals the *)
(* field of the platform.                                                 *)
RuleMatches(rule, p) == \A f \in {"OS", "Arch", "ARM"} : rule[f] # "" => rule[f] = p[f]

Kept(skip, p) == \A k \in 1 .. Len(skip) : ~RuleMatches(skip[k], p)

(* C26: SupportedPlatforms returns the ARM-expanded platforms that match  *)
(* no rule, in their order; a rule with only OS and Arch set leaves none  *)
(* of the ARM versions of that platform.                                  *)
C26_ExactlyUnmatched ==
  call.fn = "SupportedPlatforms" /\ call.stage = "done" /\ ~call.err =>
    /\ call.platforms = SelectSeq(Expanded(call.raw), LAMBDA p : Kept(call.skip, p))
    /\ \A k \in 1 .. Len(call.skip) :
         call.skip[k].OS # "" /\ call.skip[k].Arch # "" /\ call.skip[k].ARM = ""
           => \A j \in 1 .. Len(call.platforms) :
                ~(call.platforms[j].OS = call.skip[k].OS /\ call.platforms[j].Arch = call.skip[k].Arch)

(* C26, witness: a rule with OS and Arch has removed the three ARM        *)
(* versions of a platform and another platform is returned.               *)
C26_Witness ==
  /\ call.fn = "SupportedPlatforms" /\ call.stage = "done" /\ ~call.err
  /\ \E k \in 1 .. Len(call.skip), j \in 1 .. Len(call.raw) :
       /\ call.skip[k] = [OS |-> "darwin", Arch |-> "arm", ARM |-> "", Cgo |-> FALSE]
       /\ call.raw[j] = Platform("darwin", "arm", "")
  /\ call.platforms # <<>>

(* C27: the expansion loop replaces every raw entry with Arch "arm" and   *)
(* no ARM, at its place, by entries with ARM "5", "6" and "7" that keep   *)
(* OS, Arch and Cgo, and keeps every other entry and the order.           *)
C27_ArmExpansion ==
  call.fn = "SupportedPlatforms" /\ call.stage \in {"filter", "done"} /\ ~call.err =>
    call.expanded = Expanded(call.raw)

(* C27, witness: a list with an ARM entry to expand first and an entry to *)
(* keep after it has been expanded.                                       *)
C27_Witness ==
  /\ call.fn = "SupportedPlatforms" /\ call.stage = "filter"
  /\ Len(call.raw) = 2 /\ call.raw[1] = Platform("linux", "arm", "")
  /\ call.raw[2].Arch = "amd64"
  /\ Len(call.expanded) = 4

(* The host version as the name shows it. *)
HostPart(ver) ==
  IF ver # <<>> /\ Head(ver) = "v" THEN ver
  ELSE IF Len(ver) > 8 THEN SubSeq(ver, 1, 8) ELSE ver

(* C28: the base name of the artifact of Build is the host version (cut   *)
(* to 8 characters when longer and not starting with "v"), the OS, the    *)
(* architecture, the ARM version when the architecture is "arm", and a    *)
(* custom marker exactly when the environment has a package besides the   *)
(* host; nothing else goes into it.                                       *)
C28_ArtifactName ==
  call.fn = "Build" /\ call.stage = "done" /\ call.err = "none" =>
    call.artifact.name =
      <<"caddy_">> \o HostPart(call.be.caddyVer) \o <<"_", call.plat.OS, "_", call.plat.Arch>>
        \o (IF call.plat.Arch = "arm" /\ call.plat.ARM # "" THEN <<call.plat.ARM>> ELSE <<>>)
        \o (IF call.be.packages \ {CaddyPackage} # {} THEN <<"_custom">> ELSE <<>>)

(* C28, witness: a build for ARM with a plugin and a commit hash longer   *)
(* than 8 characters.                                                     *)
C28_Witness ==
  /\ call.fn = "Build" /\ call.stage = "done" /\ call.err = "none"
  /\ Len(call.be.caddyVer) > 8 /\ Head(call.be.caddyVer) # "v"
  /\ call.plat.Arch = "arm" /\ call.plat.ARM = "7"
  /\ "plugin" \in call.be.packages
  /\ Len(call.artifact.name) = 15

(* The entry the registry has for the id of a caller. *)
Entry(reg, p) == IF reg.proc[p].id \in Ids THEN reg.table[reg.proc[p].id] ELSE NoLock

(* C29: however first acquisitions on an id interleave, one lock is       *)
(* created for the id, and every acquire and release on the id uses it;   *)
(* an entry of the registry is never removed or replaced; a caller waits  *)
(* for a lock only because of a holder of the lock of the same id, and    *)
(* nobody waits for a lock while holding the mutex of the registry.       *)
C29_OneLockPerId ==
  [][call.fn = "registry" =>
       /\ \A id \in Ids :
            /\ Cardinality(call.created[id]') <= 1
            /\ call.table[id] # NoLock => call.table[id]' = call.table[id]
       /\ \A p \in Workers :
            /\ call.proc[p].obj' \in {NoLock, Entry(call', p)}
            /\ call.proc[p].holds' \in {NoLock, Entry(call', p)}
            /\ call.proc[p].pc' = "got" /\ ~CanAcquire(call', p)
                 => \E q \in Workers \ {p} :
                      call.proc[q].id' = call.proc[p].id' /\ call.proc[q].holds' # NoLock
            /\ call.mu' = p => call.proc[p].pc' \in {"mu", "looked", "found"}
       /\ \A r \in call.released' : r.held = r.on]_vars

(* C29, witness: two callers asked for the lock of an unseen id at the    *)
(* same time and both hold the one lock as readers, while the lock of     *)
(* the other id has not been created.                                     *)
C29_Witness ==
  /\ call.fn = "registry"
  /\ \E id \in Ids :
       /\ Cardinality(call.created[id]) = 1
       /\ \A p \in Workers : p <= 2 =>
            call.proc[p].id = id /\ call.proc[p].pc = "held" /\ call.proc[p].holds = call.table[id]

(* C29, witness: a caller holds the lock of one id as a writer and another *)
(* has acquired the lock of the other id.                                  *)
C29_DistinctIdsHeld ==
  /\ call.fn = "registry"
  /\ \E p \in Workers, q \in Workers :
       /\ call.proc[p].id # call.proc[q].id
       /\ call.proc[p].pc = "held" /\ call.proc[p].mode = "write"
       /\ call.proc[q].pc = "held" /\ call.proc[q].mode = "write"

(* Deploy of w has returned nil after its update: w has committed. *)
Committed(w) == req[w] = "deploy" /\ out[w].returned /\ ~out[w].err /\ hist[w].updated

(* C31: when the restore of one deploy puts its backup in the place of    *)
(* the master GOPATH, the cache keeps every module that another deploy,   *)
(* which has committed, had updated and that the cache held as updated    *)
(* before the restore.                                                    *)
C31_RollbackKeepsCommitted ==
  [][\A a \in Workers, b \in Workers :
       /\ a # b /\ Committed(a)
       /\ pc[b] = "restore_copy" /\ pc'[b] = "restore_remove"
       => \A m \in Target(a) :
            aside[b].content[m] = hist[a].upd[m] => master'[m] = hist[a].upd[m]]_vars

(* A turn of the copy loop of w's provision copies a package. *)
Copies(w) == pc[w] = "prov" /\ tmp'[w].exists /\ tmp'[w].content # tmp[w].content

(* d's update has returned and its restore has not begun. *)
UpdateNotRestored(d) == pc[d] \in {"checks_rlock", "checks", "restore_lock"}

(* C32 as stated: once a deploy has updated the cache and is about to     *)
(* restore it, no other request's provision copies a package out of the   *)
(* master GOPATH before the restore.                                      *)
C32_NoCopyBeforeRestore ==
  [][\A d \in Workers, w \in Workers :
       d # w /\ pc[d] = "restore_lock" /\ hist[d].updated => ~Copies(w)]_vars

(* C32 as amended: a provision copies a package while no deploy is inside *)
(* UpdateMasterGopath or restoreMasterGopath; when it copies between the  *)
(* update and the restore of a deploy whose cache no other request has    *)
(* written, it copies the deployed modules as the update left them.       *)
C32_CopyReadsUpdate ==
  [][\A d \in Workers, w \in Workers :
       d # w /\ Copies(w) =>
         /\ pc[d] \notin {"update", "restore_rename", "restore_copy", "restore_remove"}
         /\ UpdateNotRestored(d) /\ d \notin cache.disturbed =>
              \A m \in Target(d) :
                tmp'[w].content[m] \in {tmp[w].content[m], hist[d].upd[m]}]_vars

(* C32, witness: a deploy waits for the lock to restore while another     *)
(* request, inside its copy loop, holds a module at the revision the      *)
(* update has fetched.                                                    *)
C32_Witness ==
  \E d \in Workers, w \in Workers :
    /\ d # w /\ pc[d] = "restore_lock" /\ pc[w] = "prov"
    /\ \E m \in Target(d) :
         hist[d].pre[m] = "old" /\ hist[d].upd[m] = "new" /\ tmp[w].content[m] = "new"

(* C33: when Deploy has returned an error, and no other request has       *)
(* written the cache since the deploy began, the content the cache had    *)
(* when Deploy was called is on disk: in the master GOPATH or in the      *)
(* backup directory.                                                      *)
C33_PreDeployCopyKept ==
  \A w \in Workers :
    req[w] = "deploy" /\ out[w].returned /\ out[w].err /\ w \notin cache.disturbed =>
      \/ master = hist[w].pre
      \/ backup[w].exists /\ backup[w].content = hist[w].pre

(* C33, the case the claim names: restoreMasterGopath has failed after    *)
(* the rename, Deploy has returned, and neither the master GOPATH nor a   *)
(* backup directory holds the pre-deploy content.                         *)
C33_LostAfterFailedRestore ==
  \E w \in Workers :
    /\ req[w] = "deploy" /\ out[w].returned /\ out[w].restoreErr
    /\ hist[w].restore = <<"rename", "copy", "error">>
    /\ w \notin cache.disturbed
    /\ master # hist[w].pre /\ ~backup[w].exists

(* C34: a worker holds the write lock exactly while it is inside          *)
(* fillMasterGopath, UpdateMasterGopath or restoreMasterGopath and the    *)
(* read lock exactly while it is inside the copy loop of provision,       *)
(* backupMasterGopath or RunPluginChecks: every step gives back, on each  *)
(* of its returns, the lock it took in the mode it took it, and a worker  *)
(* whose request has ended holds nothing.                                 *)
C34_LocksMatched ==
  \A w \in Workers :
    /\ w \in rw.writers <=> WriteSection(w)
    /\ w \in rw.readers <=> ReadSection(w)
    /\ pc[w] \in {"idle", "open_err", "closing", "done"} => w \notin rw.writers \cup rw.readers

(* C34, witness: a deploy whose restore has failed is about to return     *)
(* after its four locked steps, and another request has failed in its     *)
(* copy loop; neither holds the lock.                                     *)
C34_Witness ==
  \E w \in Workers, v \in Workers :
    /\ pc[w] = "deploy_ret" /\ out[w].restoreErr
    /\ pc[v] = "open_err" /\ out[v].failstep = "copy"
    /\ rw.writers = {} /\ rw.readers = {}

(* C35: a worker that waits for the lock of the master GOPATH holds it in *)
(* no mode, and, when every external command terminates and the lock      *)
(* serves its waiting readers and writers, every request that has begun   *)
(* runs to its end: from some moment on every worker has either not       *)
(* begun a request or finished its request.                               *)
C35_NoSelfDeadlock ==
  /\ [](\A w \in Workers : Waiting(w) => w \notin rw.writers \cup rw.readers)
  /\ <>[](\A w \in Workers : pc[w] \in {"idle", "done"})

(* C35, witness: a deploy waits for the write lock to restore while a     *)
(* build holds the read lock in its copy loop and has copied a package.   *)
C35_Witness ==
  \E w \in Workers, v \in Workers :
    /\ pc[w] = "restore_lock" /\ w \notin rw.writers \cup rw.readers
    /\ req[v] = "build" /\ pc[v] = "prov" /\ v \in rw.readers
    /\ \E m \in Modules : tmp[v].content[m] # "absent"

(* C36: Deploy on an environment with no package, with more than two, or  *)
(* with one or two and not the host among them returns an error and has   *)
(* taken no backup, acquired no lock and run no command; the cache is     *)
(* untouched.                                                             *)
C36_RejectedBeforeAnyEffect ==
  /\ call.fn = "Deploy" /\ call.stage = "returned"
  /\ \/ call.be = {}
     \/ Cardinality(call.be) > 2
     \/ CaddyPackage \notin call.be
  => /\ call.err \in {"nothing to deploy", "no caddy package", "too many packages to deploy"}
     /\ call.did = <<>>
     /\ call.cache = "untouched"

(* C36, witness: Deploy has returned for an environment of two plugins    *)
(* without the host.                                                      *)
C36_Witness ==
  /\ call.fn = "Deploy" /\ call.stage = "returned"
  /\ call.be = {PluginPackage, "dns"}
  /\ call.err = "no caddy package" /\ call.did = <<>>

(* C37: a deploy reaches UpdateMasterGopath only from a backup that has   *)
(* returned without error and left a copy of the whole cache as it then   *)
(* was; when the backup has failed, Deploy returns the backup's error,    *)
(* has written nothing to the cache and leaves no backup directory.       *)
C37_UpdateOnlyAfterBackup ==
  /\ [](\A w \in Workers :
         /\ pc[w] \in {"update_lock", "update"} =>
              backup[w].exists /\ hist[w].backupMade /\ ~out[w].err
         /\ req[w] = "deploy" /\ out[w].returned /\ out[w].failstep = "backup" =>
              /\ out[w].err /\ out[w].reported = {"backup"}
              /\ ~backup[w].exists
              /\ ~hist[w].updated /\ hist[w].restoreCalls = 0
              /\ Undisturbed(w) => master = hist[w].pre)
  /\ [][\A w \in Workers :
          /\ pc'[w] = "update_lock" /\ pc[w] # "update_lock" =>
               pc[w] = "backup" /\ backup'[w] = Dir(master) /\ master' = master
          /\ pc[w] = "backup" /\ pc'[w] = "deploy_ret" =>
               master' = master /\ ~backup'[w].exists /\ out'[w].err]_vars

(* C37, witness: one deploy is about to update from its complete backup   *)
(* while another has returned the error of its failed copy.               *)
C37_Witness ==
  \E w \in Workers, v \in Workers :
    /\ pc[w] = "update_lock" /\ backup[w].exists /\ backup[w].content = master
    /\ req[v] = "deploy" /\ out[v].returned /\ out[v].failstep = "backup"
    /\ hist[v].backupMade /\ hist[v].backupDeleted = 1

(* C38: Deploy returns nil exactly when its backup, its update and its    *)
(* checks have all run and none has failed; RunPluginChecks asks for a    *)
(* revert only together with an error; a deploy that has called           *)
(* restoreMasterGopath returns an error, whether or not the restore has   *)
(* succeeded.                                                             *)
C38_NilIffAllSucceeded ==
  \A w \in Workers :
    /\ out[w].revert => out[w].err /\ out[w].failstep \in Range(CheckSteps)
    /\ req[w] = "deploy" /\ out[w].returned =>
         /\ out[w].reported = {} <=>
              /\ hist[w].backupMade /\ hist[w].deleteAt # "backup"
              /\ hist[w].updated
              /\ "/checks" \in Range(hist[w].trace)
              /\ out[w].failstep = "none"
         /\ hist[w].restoreCalls > 0 => out[w].reported # {}

(* C38, witness: a deploy whose host tests failed has restored the cache  *)
(* without error and has returned the error of the checks.                *)
C38_Witness ==
  \E w \in Workers :
    /\ req[w] = "deploy" /\ out[w].returned
    /\ out[w].revert /\ hist[w].restoreCalls = 1 /\ ~out[w].restoreErr
    /\ hist[w].restore = <<"rename", "copy", "remove">>
    /\ out[w].reported = {"hosttest"}

(* C40: two requests of the builder.go flow that are in their workspace   *)
(* GOPATHs at the same time have different GOPATHs, and the GOPATH of a   *)
(* request that is still building exists: no other request's cleanup has  *)
(* removed it.                                                            *)
C40_DistinctGopaths ==
  /\ call.fn = "builder" =>
       \A a \in Workers, b \in Workers :
         /\ a # b
         /\ call.r[a].pos \in {"work", "lock", "cleanup"}
         /\ call.r[b].pos \in {"work", "lock", "cleanup"}
         => call.r[a].Gopath # call.r[b].Gopath
  /\ call.fn = "builder" =>
       \A w \in Workers : call.r[w].pos = "work" => call.r[w].Gopath \in call.gopaths

(* C40: a request is building in a GOPATH that the cleanup of another     *)
(* request has deleted.                                                   *)
C40_GopathDeletedUnderBuild ==
  /\ call.fn = "builder"
  /\ \E a \in Workers, b \in Workers :
       /\ a # b
       /\ call.r[a].pos = "done" /\ call.r[b].pos = "work"
       /\ call.r[a].Gopath = call.r[b].Gopath
       /\ call.r[b].Gopath \notin call.gopaths

C39_OrdinaryRootCopied ==
  call.fn = "deepCopy" /\ call.stage = "returned" /\ call.src.root = <<"x">> =>
    LET hidden(e) == \E i \in 1 .. Len(e.path) : Head(e.path[i]) = "."
        testFile(e) == ~e.isDir /\ e.path[Len(e.path)][Len(e.path[Len(e.path)])] = "_test.go"
        testdata(e) ==
          \E i \in 1 .. Len(e.path) : e.path[i] = <<"testdata">> /\ (i < Len(e.path) \/ e.isDir)
        skipped(e) == \/ call.skipHidden /\ hidden(e)
                      \/ call.skipTestFiles /\ (testFile(e) \/ testdata(e))
    IN call.dest = {e \in Entries(call.src) : ~skipped(e)}

====
